---------------------------- MODULE Spec2Model ----------------------------
(***************************************************************************)
(* A model of src/bluetooth/DBusHciInterface.cpp: the per-adapter          *)
(* controller DBusHciInterface (up, down, reset, lescan, connect, the      *)
(* event-loop thread and the destructor) and the name-keyed cache          *)
(* DBusHciInterfaceManager.  Caller threads are interleaved at the points  *)
(* where the code touches shared state: a mutex, a condition, the BlueZ    *)
(* service, the accumulation map of a lescan session.                      *)
(***************************************************************************)
EXTENDS Integers, FiniteSets, Sequences, TLC

(* ------------------------------ bounds -------------------------------- *)
NThreads == 2
NNames == 2
NAddrs == 2
MaxTimeout == 2

(* --------------------------- program constants ------------------------ *)
CHANGE_POWER_ATTEMPTS == 5

Threads == 1..NThreads
AdapterNames == 1..NNames
Addrs == 1..NAddrs
NoThread == 0
NoHci == 0

VARIABLES
    m_interfaces,        \* DBusHciInterfaceManager: name -> instance (NoHci: absent)
    lk,                  \* per thread: its lookup() call
    built,               \* per name: the instances constructed for it
    m_statusMutex,       \* owner of the status lock, NoThread when free
    m_discoveringMutex,  \* owner of the discovering lock
    powered,             \* org.bluez.Adapter1 Powered, as the service holds it
    powerReq,            \* a set-powered request the service has not applied yet
    discovering,         \* org.bluez.Adapter1 Discovering
    thr,                 \* per thread: the call it is in and where (pc)
    ls,                  \* per thread: its lescan() session
    cn,                  \* per thread: its connect() call
    connected,           \* per device: org.bluez.Device1 Connected
    life,                \* the controller: alive, in its destructor, destroyed
    loopPc,              \* the event-loop thread (runLoop)
    loopRunning          \* GMainLoop is_running of m_loop

regVars == <<m_interfaces, lk, built>>
svcVars == <<powered, powerReq, discovering>>
lockVars == <<m_statusMutex, m_discoveringMutex>>
scanVars == <<ls>>
connVars == <<cn, connected>>
lifeVars == <<life, loopPc, loopRunning>>
vars == <<m_interfaces, lk, built, m_statusMutex, m_discoveringMutex,
          powered, powerReq, discovering, thr, ls, cn, connected,
          life, loopPc, loopRunning>>

(* ===================== DBusHciInterfaceManager ======================== *)

LkIdle == [pc |-> "idle", name |-> 0, newHci |-> NoHci, ret |-> NoHci, raised |-> FALSE]

InitRegistry ==
    /\ m_interfaces = [n \in AdapterNames |-> NoHci]
    /\ lk = [t \in Threads |-> LkIdle]
    /\ built = [n \in AdapterNames |-> {}]

\* lookup(name), lines 380-382: find; a hit returns the cached instance.
LookupFind(t, n) ==
    /\ lk[t].pc = "idle"
    /\ lk' = [lk EXCEPT ![t] =
                IF m_interfaces[n] # NoHci
                THEN [LkIdle EXCEPT !.name = n, !.ret = m_interfaces[n]]
                ELSE [LkIdle EXCEPT !.name = n, !.pc = "construct"]]
    /\ UNCHANGED <<m_interfaces, built>>

\* line 384: new DBusHciInterface(name). The instance a thread constructs is
\* identified by that thread: a thread constructs at most one per name.
\* The constructor's retrieveBluezAdapter (line 26) may throw.
LookupConstruct(t) ==
    /\ lk[t].pc = "construct"
    /\ \E ok \in BOOLEAN :
          IF ok
          THEN /\ lk' = [lk EXCEPT ![t].pc = "emplace", ![t].newHci = t]
               /\ built' = [built EXCEPT ![lk[t].name] = @ \cup {t}]
          ELSE /\ lk' = [lk EXCEPT ![t].pc = "idle", ![t].raised = TRUE]
               /\ built' = built
    /\ UNCHANGED m_interfaces

\* lines 385-386: emplace keeps an existing entry; newHci is returned anyway.
LookupEmplace(t) ==
    /\ lk[t].pc = "emplace"
    /\ m_interfaces' = [m_interfaces EXCEPT ![lk[t].name] =
                          IF @ = NoHci THEN lk[t].newHci ELSE @]
    /\ lk' = [lk EXCEPT ![t].pc = "idle", ![t].ret = lk[t].newHci]
    /\ UNCHANGED built

(* ======================== DBusHciInterface ============================ *)

NoName == "null"
Absent == "absent"
ReportedNames == {NoName, "alpha"}   \* org_bluez_device1_get_name: nullptr or a name
RssiValues == {-70, 0, 5}            \* org_bluez_device1_get_rssi

\* A thread's record at the start of a call of operation o.
Fresh(o) ==
    [pc |-> "idle", op |-> o, half |-> "none", i |-> 0, target |-> FALSE,
     result |-> "none", seen |-> "unread", setReqs |-> 0, polls |-> 0,
     sawTarget |-> FALSE, downs |-> 0, ups |-> 0, downRet |-> "none",
     startReqs |-> 0, prevUpOk |-> FALSE, disc |-> "unread", bcast |-> 0]

\* A lescan session before it begins: no map, no subscription.
NoSession ==
    [allDevices |-> [a \in Addrs |-> Absent],
     foundDevices |-> [a \in Addrs |-> Absent],
     mapAlive |-> FALSE, subscribed |-> FALSE, cursor |-> 0,
     remaining |-> 0, wokenBy |-> "none", zero |-> {},
     lateWrite |-> "none", lookupFailed |-> FALSE, kept |-> FALSE]

NoConnect ==
    [addr |-> 0, seen |-> "unread", connReqs |-> 0, callFailed |-> FALSE,
     connection |-> FALSE]

InitController ==
    /\ m_statusMutex = NoThread
    /\ m_discoveringMutex = NoThread
    /\ powered \in BOOLEAN
    /\ powerReq = "none"
    /\ discovering \in BOOLEAN
    /\ thr = [t \in Threads |-> Fresh("none")]
    /\ ls = [t \in Threads |-> NoSession]
    /\ cn = [t \in Threads |-> NoConnect]
    /\ connected = [a \in Addrs |-> FALSE]
    /\ life = "alive"
    /\ loopPc = "started"
    /\ loopRunning = FALSE

\* The frame of an action of the controller's callers.
CallerFrame == UNCHANGED <<regVars, lifeVars>>

\* Entry to up() / down(): the per-invocation observations start afresh.
EnterUp(r) ==
    [r EXCEPT !.pc = "up_lock", !.half = "up", !.ups = @ + 1, !.i = 0,
              !.seen = "unread", !.setReqs = 0, !.polls = 0,
              !.sawTarget = FALSE, !.startReqs = 0, !.disc = "unread",
              !.bcast = 0]

EnterDown(r) ==
    [r EXCEPT !.pc = "down_lock", !.half = "down", !.downs = @ + 1, !.i = 0,
              !.seen = "unread", !.setReqs = 0, !.polls = 0,
              !.sawTarget = FALSE, !.startReqs = 0, !.disc = "unread",
              !.bcast = 0]

\* reset() mutated: up() is called even when down() raised.
ResetIgnoresRaise(r, res) == r.op = "reset" /\ r.half = "down"

\* reset(), lines 90-94: up() runs when down() has returned; an exception
\* of down() leaves reset() before up() is called.
ResetContinues(r, res) == r.op = "reset" /\ r.half = "down" /\ res = "ok"

\* up() or down() ends with res ("ok": returned; "timeout", "error": raised).
\* Its ScopedLock is released by the action that ends it.
Leave(r, res) ==
    LET d == [r EXCEPT !.downRet = IF r.half = "down"
                                   THEN (IF res = "ok" THEN "ok" ELSE "raised")
                                   ELSE @]
    IN  IF ResetContinues(r, res)
        THEN EnterUp(d)
        ELSE [d EXCEPT !.pc = "idle", !.result = res]

Idle(t) == thr[t].pc = "idle" /\ life = "alive"

CallUp(t) ==
    /\ Idle(t)
    /\ thr' = [thr EXCEPT ![t] =
                EnterUp([Fresh("up") EXCEPT
                           !.prevUpOk = (thr[t].op = "up" /\ thr[t].result = "ok")])]
    /\ UNCHANGED <<lockVars, svcVars, scanVars, connVars>>
    /\ CallerFrame

CallDown(t) ==
    /\ Idle(t)
    /\ thr' = [thr EXCEPT ![t] = EnterDown(Fresh("down"))]
    /\ UNCHANGED <<lockVars, svcVars, scanVars, connVars>>
    /\ CallerFrame

CallReset(t) ==
    /\ Idle(t)
    /\ thr' = [thr EXCEPT ![t] = EnterDown(Fresh("reset"))]
    /\ UNCHANGED <<lockVars, svcVars, scanVars, connVars>>
    /\ CallerFrame

\* up(), line 57: ScopedLock<FastMutex> guard(m_statusMutex).
UpLock(t) ==
    /\ thr[t].pc = "up_lock"
    /\ m_statusMutex = NoThread
    /\ m_statusMutex' = t
    /\ thr' = [thr EXCEPT ![t].pc = "up_adapter"]
    /\ UNCHANGED <<m_discoveringMutex, svcVars, scanVars, connVars>>
    /\ CallerFrame

\* up(), lines 60-64, mutated: startDiscovery (line 62) is left out.
UpRetrieveAdapterOnly(t) ==
    /\ thr[t].pc = "up_adapter"
    /\ \E ok \in BOOLEAN :
          IF ok
          THEN /\ thr' = [thr EXCEPT ![t].pc = "up_check"]
               /\ UNCHANGED m_statusMutex
          ELSE /\ thr' = [thr EXCEPT ![t] = Leave(thr[t], "error")]
               /\ m_statusMutex' = NoThread
    /\ UNCHANGED <<m_discoveringMutex, svcVars, scanVars, connVars>>
    /\ CallerFrame

\* up(), line 60: retrieveBluezAdapter(path), which throws on a service error.
UpRetrieveAdapter(t) ==
    /\ thr[t].pc = "up_adapter"
    /\ \E ok \in BOOLEAN :
          IF ok
          THEN /\ thr' = [thr EXCEPT ![t].pc = "sd_lock"]
               /\ UNCHANGED m_statusMutex
          ELSE /\ thr' = [thr EXCEPT ![t] = Leave(thr[t], "error")]
               /\ m_statusMutex' = NoThread
    /\ UNCHANGED <<m_discoveringMutex, svcVars, scanVars, connVars>>
    /\ CallerFrame

\* up(), lines 64-68, mutated: the power-on request is sent whatever was read.
UpAlwaysSets(t) ==
    /\ thr[t].pc = "up_check"
    /\ thr' = [thr EXCEPT ![t].seen = IF powered THEN "on" ELSE "off",
                          ![t].setReqs = @ + 1, ![t].target = TRUE,
                          ![t].i = 0, ![t].pc = "wait_poll"]
    /\ powerReq' = "on"
    /\ UNCHANGED <<lockVars, powered, discovering, scanVars, connVars>>
    /\ CallerFrame

\* up(), lines 64-68: return if powered, else set_powered(true) and wait.
UpCheckPowered(t) ==
    /\ thr[t].pc = "up_check"
    /\ IF powered
       THEN /\ thr' = [thr EXCEPT ![t] = Leave([thr[t] EXCEPT !.seen = "on"], "ok")]
            /\ m_statusMutex' = NoThread
            /\ UNCHANGED powerReq
       ELSE /\ thr' = [thr EXCEPT ![t].seen = "off", ![t].setReqs = @ + 1,
                                  ![t].target = TRUE, ![t].i = 0,
                                  ![t].pc = "wait_poll"]
            /\ powerReq' = "on"
            /\ UNCHANGED m_statusMutex
    /\ UNCHANGED <<m_discoveringMutex, powered, discovering, scanVars, connVars>>
    /\ CallerFrame

\* down(), lines 76-81, mutated: the broadcast of line 78 is left out.
DownLockSkipsBroadcast(t) ==
    /\ thr[t].pc = "down_lock"
    /\ m_statusMutex = NoThread
    /\ m_statusMutex' = t
    /\ thr' = [thr EXCEPT ![t].pc = "down_adapter"]
    /\ UNCHANGED <<m_discoveringMutex, svcVars, scanVars, connVars>>
    /\ CallerFrame

\* down(), line 76.
DownLock(t) ==
    /\ thr[t].pc = "down_lock"
    /\ m_statusMutex = NoThread
    /\ m_statusMutex' = t
    /\ thr' = [thr EXCEPT ![t].pc = "down_bcast"]
    /\ UNCHANGED <<m_discoveringMutex, svcVars, scanVars, connVars>>
    /\ CallerFrame

\* m_waitCondition (WaitCondition): a thread inside tryWait(timeout).
Waiting(u) == thr[u].pc = "ls_wait"

\* WaitCondition::broadcast(): every thread inside tryWait leaves it.
Released(th) ==
    [u \in Threads |-> IF Waiting(u) THEN [th[u] EXCEPT !.pc = "ls_filter"]
                       ELSE th[u]]

WokenSessions ==
    [u \in Threads |-> IF Waiting(u) THEN [ls[u] EXCEPT !.wokenBy = "broadcast"]
                       ELSE ls[u]]

\* down() mutated: the broadcast is made only on the power-off path.
DownBroadcastIfPowered(t) ==
    /\ thr[t].pc = "down_bcast"
    /\ thr' = [(IF powered THEN Released(thr) ELSE thr) EXCEPT
                  ![t].pc = "down_adapter", ![t].bcast = IF powered THEN @ + 1 ELSE @]
    /\ ls' = IF powered THEN WokenSessions ELSE ls
    /\ UNCHANGED <<lockVars, svcVars, connVars>>
    /\ CallerFrame

\* down(), line 78: m_waitCondition.broadcast(), under the status lock.
DownBroadcast(t) ==
    /\ thr[t].pc = "down_bcast"
    /\ thr' = [Released(thr) EXCEPT ![t].pc = "down_adapter", ![t].bcast = @ + 1]
    /\ ls' = WokenSessions
    /\ UNCHANGED <<lockVars, svcVars, connVars>>
    /\ CallerFrame

\* down(), line 81: retrieveBluezAdapter(path).
DownRetrieveAdapter(t) ==
    /\ thr[t].pc = "down_adapter"
    /\ \E ok \in BOOLEAN :
          IF ok
          THEN /\ thr' = [thr EXCEPT ![t].pc = "down_check"]
               /\ UNCHANGED m_statusMutex
          ELSE /\ thr' = [thr EXCEPT ![t] = Leave(thr[t], "error")]
               /\ m_statusMutex' = NoThread
    /\ UNCHANGED <<m_discoveringMutex, svcVars, scanVars, connVars>>
    /\ CallerFrame

\* down(), lines 83-87: return if not powered, else set_powered(false) and wait.
DownCheckPowered(t) ==
    /\ thr[t].pc = "down_check"
    /\ IF ~powered
       THEN /\ thr' = [thr EXCEPT ![t] = Leave([thr[t] EXCEPT !.seen = "off"], "ok")]
            /\ m_statusMutex' = NoThread
            /\ UNCHANGED powerReq
       ELSE /\ thr' = [thr EXCEPT ![t].seen = "on", ![t].setReqs = @ + 1,
                                  ![t].target = FALSE, ![t].i = 0,
                                  ![t].pc = "wait_poll"]
            /\ powerReq' = "off"
            /\ UNCHANGED m_statusMutex
    /\ UNCHANGED <<m_discoveringMutex, powered, discovering, scanVars, connVars>>
    /\ CallerFrame

\* waitUntilPoweredChange, line 176, mutated: one attempt too many.
OneMoreAttempt(i) == i <= CHANGE_POWER_ATTEMPTS

\* waitUntilPoweredChange, line 176: the loop condition.
AttemptsLeft(i) == i < CHANGE_POWER_ATTEMPTS

\* waitUntilPoweredChange, lines 176-181: one poll. retrieveBluezAdapter may
\* throw; a match returns; otherwise m_condition.tryWait(m_statusMutex, ...)
\* releases the status lock for the time of the wait.
WaitPoll(t) ==
    /\ thr[t].pc = "wait_poll"
    /\ AttemptsLeft(thr[t].i)
    /\ \E ok \in BOOLEAN :
          IF ~ok
          THEN thr' = [thr EXCEPT ![t] = Leave(thr[t], "error")]
          ELSE IF powered = thr[t].target
          THEN thr' = [thr EXCEPT ![t] =
                          Leave([thr[t] EXCEPT !.polls = @ + 1, !.sawTarget = TRUE], "ok")]
          ELSE thr' = [thr EXCEPT ![t].polls = @ + 1, ![t].pc = "wait_sleep"]
    /\ m_statusMutex' = NoThread
    /\ UNCHANGED <<m_discoveringMutex, svcVars, scanVars, connVars>>
    /\ CallerFrame

\* line 181: the wait ends (nothing signals m_condition: by its timeout) and
\* the status lock is locked again; ++i.
WaitWake(t) ==
    /\ thr[t].pc = "wait_sleep"
    /\ m_statusMutex = NoThread
    /\ m_statusMutex' = t
    /\ thr' = [thr EXCEPT ![t].pc = "wait_poll", ![t].i = @ + 1]
    /\ UNCHANGED <<m_discoveringMutex, svcVars, scanVars, connVars>>
    /\ CallerFrame

\* line 184, mutated: the exception leaves m_statusMutex locked.
WaitGiveUpKeepsLock(t) ==
    /\ thr[t].pc = "wait_poll"
    /\ ~AttemptsLeft(thr[t].i)
    /\ thr' = [thr EXCEPT ![t] = Leave(thr[t], "timeout")]
    /\ UNCHANGED <<lockVars, svcVars, scanVars, connVars>>
    /\ CallerFrame

\* line 184: throw TimeoutException.
WaitGiveUp(t) ==
    /\ thr[t].pc = "wait_poll"
    /\ ~AttemptsLeft(thr[t].i)
    /\ thr' = [thr EXCEPT ![t] = Leave(thr[t], "timeout")]
    /\ m_statusMutex' = NoThread
    /\ UNCHANGED <<m_discoveringMutex, svcVars, scanVars, connVars>>
    /\ CallerFrame

\* The service applies a pending set-powered request (it may never do so).
ServiceApplyPower ==
    /\ powerReq # "none"
    /\ powered' = (powerReq = "on")
    /\ powerReq' = "none"
    /\ UNCHANGED <<lockVars, discovering, thr, scanVars, connVars>>
    /\ CallerFrame

(* ----------------------------- startDiscovery ------------------------- *)

\* startDiscovery, line 191, mutated: m_discoveringMutex is not taken.
SdLockFree(t) ==
    /\ thr[t].pc = "sd_lock"
    /\ thr' = [thr EXCEPT ![t].pc = "sd_check"]
    /\ UNCHANGED <<lockVars, svcVars, scanVars, connVars>>
    /\ CallerFrame

\* startDiscovery, line 191: ScopedLock<FastMutex> guard(m_discoveringMutex).
SdLock(t) ==
    /\ thr[t].pc = "sd_lock"
    /\ m_discoveringMutex = NoThread
    /\ m_discoveringMutex' = t
    /\ thr' = [thr EXCEPT ![t].pc = "sd_check"]
    /\ UNCHANGED <<m_statusMutex, svcVars, scanVars, connVars>>
    /\ CallerFrame

\* Where the caller of startDiscovery goes on: up() line 64, lescan() line 126.
AfterStart(r) == [r EXCEPT !.pc = IF r.op = "lescan" THEN "ls_wait" ELSE "up_check"]

\* An exception leaves lescan(): its locals are destroyed in reverse order,
\* allDevices (line 115) before objectManager (line 113).
LescanRaise(r) == [r EXCEPT !.pc = "ls_release", !.result = "error"]

\* startDiscovery, lines 193-194, mutated: the early return keeps
\* m_discoveringMutex locked.
SdCheckKeepsLock(t) ==
    /\ thr[t].pc = "sd_check"
    /\ thr' = [thr EXCEPT ![t] = IF discovering
                                 THEN AfterStart([thr[t] EXCEPT !.disc = "already"])
                                 ELSE [thr[t] EXCEPT !.pc = "sd_start"]]
    /\ UNCHANGED <<lockVars, svcVars, scanVars, connVars>>
    /\ CallerFrame

\* startDiscovery, lines 193-194: nothing more if the adapter discovers.
SdCheck(t) ==
    /\ thr[t].pc = "sd_check"
    /\ IF discovering
       THEN /\ thr' = [thr EXCEPT ![t] = AfterStart([thr[t] EXCEPT !.disc = "already"])]
            /\ m_discoveringMutex' = NoThread
       ELSE /\ thr' = [thr EXCEPT ![t].pc = "sd_start"]
            /\ UNCHANGED m_discoveringMutex
    /\ UNCHANGED <<m_statusMutex, svcVars, scanVars, connVars>>
    /\ CallerFrame

\* startDiscovery, lines 196-197: set the filter (initDiscoveryFilter throws
\* on a service error) and request the start, whose own error is dropped
\* (nullptr).
SdStart(t) ==
    /\ thr[t].pc = "sd_start"
    /\ m_discoveringMutex' = NoThread
    /\ \E out \in {"filter_error", "started", "not_started"} :
          IF out = "filter_error"
          THEN /\ thr' = [thr EXCEPT ![t] =
                            IF thr[t].op = "lescan" THEN LescanRaise(thr[t])
                            ELSE Leave(thr[t], "error")]
               /\ m_statusMutex' = IF thr[t].op = "lescan" THEN m_statusMutex
                                   ELSE NoThread
               /\ ls' = IF thr[t].op = "lescan"
                        THEN [ls EXCEPT ![t].mapAlive = FALSE] ELSE ls
               /\ UNCHANGED discovering
          ELSE /\ thr' = [thr EXCEPT ![t] =
                            AfterStart([thr[t] EXCEPT !.startReqs = @ + 1,
                                                      !.disc = "requested"])]
               /\ discovering' = IF out = "started" THEN TRUE ELSE discovering
               /\ UNCHANGED <<m_statusMutex, ls>>
    /\ UNCHANGED <<powered, powerReq, connVars>>
    /\ CallerFrame

(* -------------------------------- lescan ------------------------------ *)

\* lines 246 and 309: charName == nullptr ? "unknown" : charName.
DeviceName(charName) == IF charName = NoName THEN "unknown" ELSE charName

Entries(m) == {a \in Addrs : m[a] # Absent}

\* map::operator[] assignment in place of emplace: the last name wins.
Assign(m, a, n) == [m EXCEPT ![a] = n]

\* map::emplace: an existing key keeps its value.
Emplace(m, a, n) == IF m[a] = Absent THEN [m EXCEPT ![a] = n] ELSE m

CallLescan(t) ==
    /\ Idle(t)
    /\ \E tm \in 1..MaxTimeout :
          ls' = [ls EXCEPT ![t] = [NoSession EXCEPT !.remaining = tm]]
    /\ thr' = [thr EXCEPT ![t] = [Fresh("lescan") EXCEPT !.pc = "ls_create"]]
    /\ UNCHANGED <<lockVars, svcVars, connVars>>
    /\ CallerFrame

\* lines 113-116: createBluezObjectManager (throws on a service error), then
\* processKnownDevices: every known device of this adapter whose lookup
\* succeeds is recorded under its name, "unknown" when it reports none.
LescanSeed(t) ==
    /\ thr[t].pc = "ls_create"
    /\ \E ok \in BOOLEAN :
          IF ~ok
          THEN /\ thr' = [thr EXCEPT ![t].pc = "idle", ![t].result = "error"]
               /\ ls' = ls
          ELSE \E known \in [Addrs -> ReportedNames \cup {Absent}] :
               /\ thr' = [thr EXCEPT ![t].pc = "ls_connect"]
               /\ ls' = [ls EXCEPT ![t].mapAlive = TRUE,
                                   ![t].allDevices =
                                      [a \in Addrs |-> IF known[a] = Absent THEN Absent
                                                       ELSE DeviceName(known[a])]]
    /\ UNCHANGED <<lockVars, svcVars, connVars>>
    /\ CallerFrame

\* lines 118-122: g_signal_connect(objectManager, "object-added", ..., &allDevices).
LescanConnect(t) ==
    /\ thr[t].pc = "ls_connect"
    /\ thr' = [thr EXCEPT ![t].pc = "sd_lock"]
    /\ ls' = [ls EXCEPT ![t].subscribed = TRUE]
    /\ UNCHANGED <<lockVars, svcVars, connVars>>
    /\ CallerFrame

\* line 126: time passes inside m_waitCondition.tryWait(timeout).
LescanTick(t) ==
    /\ Waiting(t)
    /\ ls[t].remaining > 0
    /\ ls' = [ls EXCEPT ![t].remaining = @ - 1]
    /\ UNCHANGED <<lockVars, svcVars, thr, connVars>>
    /\ CallerFrame

\* line 126: the timeout has elapsed.
LescanTimeout(t) ==
    /\ Waiting(t)
    /\ ls[t].remaining = 0
    /\ thr' = [thr EXCEPT ![t].pc = "ls_filter"]
    /\ ls' = [ls EXCEPT ![t].wokenBy = "timeout"]
    /\ UNCHANGED <<lockVars, svcVars, connVars>>
    /\ CallerFrame

\* The entries the range-for of line 129 has still to visit: std::map iterates
\* in key order, so an entry inserted behind the iterator is not visited.
Ahead(s) == {a \in Entries(s.allDevices) : a > s.cursor}

NextEntry(s) == CHOOSE a \in Ahead(s) : \A b \in Ahead(s) : a <= b

\* line 132: if (rssi != 0).
Keeps(rssi) == rssi # 0

\* lines 129-139: one iteration. retrieveBluezDevice may throw, which leaves
\* lescan(); else the entry is kept when its signal strength is not zero.
LescanFilterStep(t) ==
    /\ thr[t].pc = "ls_filter"
    /\ Ahead(ls[t]) # {}
    /\ LET a == NextEntry(ls[t]) IN
       \E ok \in BOOLEAN :
          IF ~ok
          THEN /\ thr' = [thr EXCEPT ![t] = LescanRaise(thr[t])]
               /\ ls' = [ls EXCEPT ![t].mapAlive = FALSE, ![t].lookupFailed = TRUE]
          ELSE \E rssi \in RssiValues :
               /\ thr' = thr
               /\ ls' = [ls EXCEPT
                           ![t].cursor = a,
                           ![t].foundDevices =
                               IF Keeps(rssi) THEN Emplace(@, a, ls[t].allDevices[a])
                               ELSE @,
                           ![t].zero = IF rssi = 0 THEN @ \cup {a} ELSE @]
    /\ UNCHANGED <<lockVars, svcVars, connVars>>
    /\ CallerFrame

\* lines 141-144, mutated: lescan stops the discovery before it returns.
LescanFinishStops(t) ==
    /\ thr[t].pc = "ls_filter"
    /\ Ahead(ls[t]) = {}
    /\ thr' = [thr EXCEPT ![t].pc = "ls_release", ![t].result = "ok"]
    /\ ls' = [ls EXCEPT ![t].mapAlive = FALSE]
    /\ discovering' = FALSE
    /\ UNCHANGED <<lockVars, powered, powerReq, connVars>>
    /\ CallerFrame

\* lines 141-144: return foundDevices; allDevices is destroyed.
LescanFinish(t) ==
    /\ thr[t].pc = "ls_filter"
    /\ Ahead(ls[t]) = {}
    /\ thr' = [thr EXCEPT ![t].pc = "ls_release", ![t].result = "ok"]
    /\ ls' = [ls EXCEPT ![t].mapAlive = FALSE]
    /\ UNCHANGED <<lockVars, svcVars, connVars>>
    /\ CallerFrame

\* objectManager (line 113) is released last: its handler goes with it.
LescanRelease(t) ==
    /\ thr[t].pc = "ls_release"
    /\ thr' = [thr EXCEPT ![t].pc = "idle"]
    /\ ls' = [ls EXCEPT ![t] = NoSession]
    /\ UNCHANGED <<lockVars, svcVars, connVars>>
    /\ CallerFrame

(* --------------------------- event-loop thread ------------------------ *)

\* runLoop, line 253: m_loop = g_main_loop_new(nullptr, false).
LoopCreate ==
    /\ loopPc = "started"
    /\ loopPc' = "created"
    /\ UNCHANGED <<regVars, lockVars, svcVars, thr, scanVars, connVars, life, loopRunning>>

\* runLoop, line 254: g_main_loop_run sets is_running and dispatches.
LoopRun ==
    /\ loopPc = "created"
    /\ loopPc' = "running"
    /\ loopRunning' = TRUE
    /\ UNCHANGED <<regVars, lockVars, svcVars, thr, scanVars, connVars, life>>

\* What the handler's access means for the session of thread u: a write while
\* the caller filters, or an access to a map that is no longer there.
Phase(u) ==
    IF ~ls[u].mapAlive THEN "dead"
    ELSE IF thr[u].pc = "ls_filter" THEN "filtering"
    ELSE ls[u].lateWrite

\* onDBusObjectAdded, lines 289-313, dispatched by the running loop to the
\* handler of a session: a failed device lookup returns; else the address is
\* emplaced into the map userData points to.
ObjectAdded(u, a, n) ==
    /\ loopPc = "running"
    /\ loopRunning
    /\ ls[u].subscribed
    /\ \E ok \in BOOLEAN :
          IF ~ok
          THEN ls' = ls
          ELSE IF ~ls[u].mapAlive
          THEN ls' = [ls EXCEPT ![u].lateWrite = "dead"]
          ELSE LET m == Emplace(ls[u].allDevices, a, DeviceName(n)) IN
               ls' = [ls EXCEPT ![u].allDevices = m,
                                ![u].lateWrite = IF m # ls[u].allDevices
                                                 THEN Phase(u) ELSE @,
                                ![u].kept = @ \/ ls[u].allDevices[a] \notin
                                                    {Absent, DeviceName(n)}]
    /\ UNCHANGED <<lockVars, svcVars, thr, connVars>>
    /\ CallerFrame

\* runLoop, line 254: g_main_loop_run returns once is_running is cleared.
LoopExit ==
    /\ loopPc = "running"
    /\ ~loopRunning
    /\ loopPc' = "finished"
    /\ UNCHANGED <<regVars, lockVars, svcVars, thr, scanVars, connVars, life, loopRunning>>

(* -------------------------------- connect ----------------------------- *)

CallConnect(t, a) ==
    /\ Idle(t)
    /\ thr' = [thr EXCEPT ![t] = [Fresh("connect") EXCEPT !.pc = "cn_resolve"]]
    /\ cn' = [cn EXCEPT ![t] = [NoConnect EXCEPT !.addr = a]]
    /\ UNCHANGED <<lockVars, svcVars, scanVars, connected>>
    /\ CallerFrame

\* connect, lines 160-161: retrieveBluezDevice(path) throws on a service error.
ConnectResolve(t) ==
    /\ thr[t].pc = "cn_resolve"
    /\ \E ok \in BOOLEAN :
          thr' = [thr EXCEPT ![t].pc = IF ok THEN "cn_check" ELSE "idle",
                             ![t].result = IF ok THEN @ ELSE "error"]
    /\ UNCHANGED <<lockVars, svcVars, scanVars, connVars>>
    /\ CallerFrame

\* connect mutated: the request is sent without looking at Connected.
ConnectAlwaysCalls(t) ==
    /\ thr[t].pc = "cn_check"
    /\ thr' = [thr EXCEPT ![t].pc = "cn_call"]
    /\ cn' = [cn EXCEPT ![t].seen = IF connected[cn[t].addr] THEN "connected" ELSE "not"]
    /\ UNCHANGED <<lockVars, svcVars, scanVars, connected>>
    /\ CallerFrame

\* connect, lines 163 and 171: an already connected device goes straight to
\* return new DBusHciConnection(...).
ConnectCheck(t) ==
    /\ thr[t].pc = "cn_check"
    /\ IF connected[cn[t].addr]
       THEN /\ thr' = [thr EXCEPT ![t].pc = "idle", ![t].result = "ok"]
            /\ cn' = [cn EXCEPT ![t].seen = "connected", ![t].connection = TRUE]
       ELSE /\ thr' = [thr EXCEPT ![t].pc = "cn_call"]
            /\ cn' = [cn EXCEPT ![t].seen = "not"]
    /\ UNCHANGED <<lockVars, svcVars, scanVars, connected>>
    /\ CallerFrame

\* connect, lines 164-171: one org_bluez_device1_call_connect_sync; its error
\* is thrown by throwErrorIfAny, else the Connection is returned.
ConnectCall(t) ==
    /\ thr[t].pc = "cn_call"
    /\ \E ok \in BOOLEAN :
          /\ thr' = [thr EXCEPT ![t].pc = "idle",
                                ![t].result = IF ok THEN "ok" ELSE "error"]
          /\ cn' = [cn EXCEPT ![t].connReqs = @ + 1, ![t].callFailed = ~ok,
                              ![t].connection = ok]
          /\ connected' = IF ok THEN [connected EXCEPT ![cn[t].addr] = TRUE]
                          ELSE connected
    /\ UNCHANGED <<lockVars, svcVars, scanVars>>
    /\ CallerFrame

\* The link to a device is lost.
ServiceDisconnect(a) ==
    /\ connected[a]
    /\ connected' = [connected EXCEPT ![a] = FALSE]
    /\ UNCHANGED <<lockVars, svcVars, thr, scanVars, cn>>
    /\ CallerFrame

(* ------------------------------ destructor ---------------------------- *)

DtorThread == NThreads + 1

DtorFrame == UNCHANGED <<regVars, thr, scanVars, connVars, powered, powerReq>>

\* The last reference is dropped: no call is in progress on the controller.
DtorBegin ==
    /\ life = "alive"
    /\ \A t \in Threads : thr[t].pc = "idle"
    /\ life' = "dtor_sd_lock"
    /\ UNCHANGED <<lockVars, discovering, loopPc, loopRunning>>
    /\ DtorFrame

\* ~DBusHciInterface line 32, stopDiscovery line 202.
DtorStopLock ==
    /\ life = "dtor_sd_lock"
    /\ m_discoveringMutex = NoThread
    /\ m_discoveringMutex' = DtorThread
    /\ life' = "dtor_sd_check"
    /\ UNCHANGED <<m_statusMutex, discovering, loopPc, loopRunning>>
    /\ DtorFrame

\* stopDiscovery, lines 204-205: nothing more unless the adapter discovers.
DtorStopCheck ==
    /\ life = "dtor_sd_check"
    /\ IF discovering
       THEN /\ life' = "dtor_sd_stop"
            /\ UNCHANGED m_discoveringMutex
       ELSE /\ life' = "dtor_check"
            /\ m_discoveringMutex' = NoThread
    /\ UNCHANGED <<m_statusMutex, discovering, loopPc, loopRunning>>
    /\ DtorFrame

\* stopDiscovery, line 207: the stop request, whose own error is dropped.
DtorStopCall ==
    /\ life = "dtor_sd_stop"
    /\ m_discoveringMutex' = NoThread
    /\ \E stopped \in BOOLEAN : discovering' = IF stopped THEN FALSE ELSE discovering
    /\ life' = "dtor_check"
    /\ UNCHANGED <<m_statusMutex, loopPc, loopRunning>>
    /\ DtorFrame

\* line 34: g_main_loop_is_running(m_loop.raw()), false also while runLoop has
\* not yet created the loop (m_loop is null) or not yet entered g_main_loop_run.
DtorCheckRunning ==
    /\ life = "dtor_check"
    /\ life' = IF loopPc \in {"created", "running"} /\ loopRunning
               THEN "dtor_quit" ELSE "dtor_join"
    /\ UNCHANGED <<lockVars, discovering, loopPc, loopRunning>>
    /\ DtorFrame

\* line 35: g_main_loop_quit clears is_running.
DtorQuit ==
    /\ life = "dtor_quit"
    /\ loopRunning' = FALSE
    /\ life' = "dtor_join"
    /\ UNCHANGED <<lockVars, discovering, loopPc>>
    /\ DtorFrame

\* line 38: m_thread.join() returns when runLoop has returned.
DtorJoin ==
    /\ life = "dtor_join"
    /\ loopPc = "finished"
    /\ life' = "destroyed"
    /\ UNCHANGED <<lockVars, discovering, loopPc, loopRunning>>
    /\ DtorFrame

(* ---------------------------- specifications ------------------------- *)

Init == InitRegistry /\ InitController

\* Threads calling up(), down() and reset() on one controller.
NextPower ==
    \/ \E t \in Threads :
          \/ CallUp(t) \/ CallDown(t) \/ CallReset(t)
          \/ UpLock(t) \/ UpRetrieveAdapter(t) \/ SdLock(t) \/ SdCheck(t) \/ SdStart(t)
          \/ UpCheckPowered(t)
          \/ DownLock(t) \/ DownBroadcast(t) \/ DownRetrieveAdapter(t)
          \/ DownCheckPowered(t)
          \/ WaitPoll(t) \/ WaitWake(t) \/ WaitGiveUp(t)
    \/ ServiceApplyPower

SpecPower == Init /\ [][NextPower]_vars

\* One thread runs discovery sessions, the others call down() meanwhile, and
\* the event loop dispatches object-added notifications.
Scanners == {1}

NextScan ==
    \/ \E t \in Scanners : CallLescan(t)
    \/ \E t \in Threads \ Scanners : CallDown(t)
    \/ \E t \in Threads :
          \/ LescanSeed(t) \/ LescanConnect(t)
          \/ SdLock(t) \/ SdCheck(t) \/ SdStart(t)
          \/ LescanTick(t) \/ LescanTimeout(t)
          \/ LescanFilterStep(t) \/ LescanFinish(t) \/ LescanRelease(t)
          \/ DownLock(t) \/ DownBroadcast(t)
          \/ DownRetrieveAdapter(t) \/ DownCheckPowered(t)
          \/ WaitPoll(t) \/ WaitWake(t) \/ WaitGiveUp(t)
    \/ \E u \in Threads, a \in Addrs, n \in ReportedNames : ObjectAdded(u, a, n)
    \/ ServiceApplyPower
    \/ LoopCreate
    \/ LoopRun

SpecScan == Init /\ [][NextScan]_vars

\* Threads calling connect() while devices drop their links.
NextConnect ==
    \/ \E t \in Threads :
          \/ \E a \in Addrs : CallConnect(t, a)
          \/ ConnectResolve(t) \/ ConnectCheck(t) \/ ConnectCall(t)
    \/ \E a \in Addrs : ServiceDisconnect(a)

SpecConnect == Init /\ [][NextConnect]_vars

\* Threads looking adapters up in the manager.
NextRegistry ==
    \E t \in Threads :
       \/ \E n \in AdapterNames : LookupFind(t, n)
       \/ LookupConstruct(t)
       \/ LookupEmplace(t)

LookupFrame ==
    UNCHANGED <<lockVars, svcVars, thr, scanVars, connVars, lifeVars>>

SpecRegistry == Init /\ [][NextRegistry /\ LookupFrame]_vars

\* The life of one controller: the event-loop thread started by the
\* constructor, callers bringing the adapter up, and the destructor.
NextLife ==
    \/ \E t \in Threads :
          \/ CallUp(t) \/ UpLock(t) \/ UpRetrieveAdapter(t)
          \/ SdLock(t) \/ SdCheck(t) \/ SdStart(t) \/ UpCheckPowered(t)
          \/ WaitPoll(t) \/ WaitWake(t) \/ WaitGiveUp(t)
    \/ ServiceApplyPower
    \/ LoopCreate \/ LoopRun \/ LoopExit
    \/ DtorBegin \/ DtorStopLock \/ DtorStopCheck \/ DtorStopCall
    \/ DtorCheckRunning
    \/ DtorQuit \/ DtorJoin

SpecLife == Init /\ [][NextLife]_vars

\* The steps of a lescan() call after its entry, without the notifications.
LescanSteps(t) ==
    \/ LescanSeed(t) \/ LescanConnect(t)
    \/ LescanTick(t) \/ LescanTimeout(t)
    \/ LescanFilterStep(t) \/ LescanFinish(t) \/ LescanRelease(t)

\* Every thread runs discovery sessions on the one controller.
NextSessions ==
    \E t \in Threads :
       \/ CallLescan(t) \/ LescanSteps(t)
       \/ SdLock(t) \/ SdCheck(t) \/ SdStart(t)

SpecSessions == Init /\ [][NextSessions]_vars

\* up(), down() and reset() by every thread, lescan() by the scanning thread.
NextLocks ==
    \/ NextPower
    \/ \E t \in Scanners : CallLescan(t) \/ LescanSteps(t)

SpecLocks == Init /\ [][NextLocks]_vars

\* The life of one controller with up() by every thread and lescan() by the
\* scanning thread before the destructor runs.
NextDiscovery ==
    \/ NextLife
    \/ \E t \in Scanners : CallLescan(t) \/ LescanSteps(t)

SpecDiscovery == Init /\ [][NextDiscovery]_vars

\* The steps of thread t inside up() and down(), startDiscovery apart.
PowerSteps(t) ==
    \/ UpLock(t) \/ UpRetrieveAdapter(t) \/ UpCheckPowered(t)
    \/ DownLock(t) \/ DownBroadcast(t) \/ DownRetrieveAdapter(t)
    \/ DownCheckPowered(t)
    \/ WaitPoll(t) \/ WaitWake(t) \/ WaitGiveUp(t)

\* One thread runs discovery sessions while the others call up() and down().
NextBlocking ==
    \/ \E t \in Scanners : CallLescan(t) \/ LescanSteps(t)
    \/ \E t \in Threads \ Scanners : CallUp(t) \/ CallDown(t) \/ PowerSteps(t)
    \/ \E t \in Threads : SdLock(t) \/ SdCheck(t) \/ SdStart(t)
    \/ ServiceApplyPower

SpecBlocking == Init /\ [][NextBlocking]_vars

\* SpecBlocking where the scanning thread is run again when it can run, the
\* clock of its timed wait goes on, the holder of m_discoveringMutex goes on
\* to release it, and a thread waiting for that mutex gets it when it is
\* released again and again.
FairBlocking ==
    /\ SpecBlocking
    /\ WF_vars(\E t \in Threads : SdCheck(t) \/ SdStart(t))
    /\ \A t \in Scanners : WF_vars(LescanSteps(t)) /\ SF_vars(SdLock(t))

(* ============================ properties ============================== *)

\* C1: for one adapter name at most one controller is ever constructed, and
\* every lookup that returned gave the instance the manager caches.
LookupConstructsOnce ==
    /\ \A n \in AdapterNames : Cardinality(built[n]) <= 1
    /\ \A t \in Threads :
          (lk[t].pc = "idle" /\ lk[t].ret # NoHci) => lk[t].ret = m_interfaces[lk[t].name]

\* A thread between acquiring the status lock and leaving up() / down().
InUpDown(t) ==
    /\ thr[t].op \in {"up", "down", "reset"}
    /\ thr[t].pc \in {"up_adapter", "sd_lock", "sd_check", "sd_start", "up_check",
                      "down_bcast",
                      "down_adapter", "down_check", "wait_poll", "wait_sleep"}

\* C2: no two threads are at the same time between acquiring the status lock
\* and leaving up() / down(), the retry wait included.
StatusLockExcludes ==
    \A t, u \in Threads : (t # u) => ~(InUpDown(t) /\ InUpDown(u))

\* C3: the step of down() that passes its broadcast takes every thread that is
\* inside the timed wait of lescan out of the wait, with the timeout it had
\* left untouched, whatever the adapter's power state.
DownReleasesLescan ==
    [][\A t, u \in Threads :
          (thr[t].pc = "down_bcast" /\ thr'[t].pc # "down_bcast" /\ thr[u].pc = "ls_wait")
             => /\ thr'[u].pc = "ls_filter"
                /\ ls'[u].wokenBy = "broadcast"
                /\ ls'[u].remaining = ls[u].remaining]_vars

\* C3 witness: a lescan wait with its whole timeout left was ended by the
\* broadcast of a down() that then found the adapter not powered.
LescanReleasedByDown ==
    \E t, u \in Threads :
       /\ thr[u].pc = "ls_filter" /\ ls[u].wokenBy = "broadcast"
       /\ ls[u].remaining = MaxTimeout
       /\ thr[t].half = "down" /\ thr[t].seen = "off" /\ thr[t].pc = "idle"

\* C4: when the destructor waits in join, the event-loop thread has finished
\* or its loop has been told to exit, so that the join returns.
DestructionStopsLoop ==
    life = "dtor_join" => (loopPc = "finished" \/ (loopPc = "running" /\ ~loopRunning))

\* C5: the object-added handler never writes the accumulation map while the
\* caller filters it, nor touches it once the session's map is gone.
MapAccessDisjoint ==
    \A u \in Threads : ls[u].lateWrite = "none"

\* C6: the power wait makes at most 5 polls; it returns at the first poll that
\* observes the target, having made exactly that many polls; it raises Timeout
\* exactly when 5 polls were made and none observed the target.
PowerPollBudget ==
    \A t \in Threads :
       /\ thr[t].polls <= 5
       /\ thr[t].pc = "wait_poll" => (thr[t].polls = thr[t].i /\ ~thr[t].sawTarget)
       /\ thr[t].pc = "wait_sleep" => (thr[t].polls = thr[t].i + 1 /\ ~thr[t].sawTarget)
       /\ thr[t].sawTarget =>
             (thr[t].pc = "idle" /\ thr[t].result = "ok" /\ thr[t].polls = thr[t].i + 1)
       /\ thr[t].result = "timeout" => (thr[t].polls = 5 /\ ~thr[t].sawTarget)
       /\ (thr[t].pc = "idle" /\ thr[t].polls = 5 /\ ~thr[t].sawTarget)
             => thr[t].result = "timeout"

\* C6 witness: one up() returned at its 3rd poll and one call raised Timeout
\* after 5 polls.
PolledThreeAndFive ==
    \E t, u \in Threads :
       /\ thr[t].half = "up" /\ thr[t].sawTarget /\ thr[t].polls = 3
       /\ thr[u].result = "timeout" /\ thr[u].polls = 5

\* C7: an up() that reads the adapter powered, and a down() that reads it not
\* powered, has returned: no set-power request, no poll, no Timeout.
NoRequestWhenAlreadyThere ==
    \A t \in Threads :
       (\/ thr[t].half = "up" /\ thr[t].seen = "on"
        \/ thr[t].half = "down" /\ thr[t].seen = "off")
          => /\ thr[t].setReqs = 0
             /\ thr[t].polls = 0
             /\ thr[t].pc = "idle"
             /\ thr[t].result = "ok"

\* C7 witness: a second up() right after a successful up() of the same thread
\* found the adapter powered and returned.
SecondUpReturned ==
    \E t \in Threads :
       /\ thr[t].op = "up" /\ thr[t].prevUpOk
       /\ thr[t].seen = "on" /\ thr[t].pc = "idle" /\ thr[t].result = "ok"

\* C8: when lescan returns, every entry of the accumulation map has had its
\* signal strength queried and the returned map holds exactly the entries
\* whose query was not zero, under their accumulated names.
LescanReturnsExactlyVisible ==
    \A t \in Threads :
       (thr[t].pc = "ls_release" /\ thr[t].result = "ok") =>
          LET all == ls[t].allDevices
              found == ls[t].foundDevices
          IN  /\ Entries(found) \subseteq Entries(all)
              /\ Entries(found) \cap ls[t].zero = {}
              /\ \A a \in Entries(found) : found[a] = all[a]
              /\ Entries(all) \subseteq (Entries(found) \cup ls[t].zero)

\* C9 as stated: a finished reset() has made one down() and one up().
ResetAlwaysDownAndUp ==
    \A t \in Threads :
       (thr[t].op = "reset" /\ thr[t].pc = "idle") => (thr[t].downs = 1 /\ thr[t].ups = 1)

\* C9 amended: reset() makes exactly one down(); it makes one up(), after that
\* down() has returned, exactly when the down() returned without raising, and
\* none when the down() raised.
ResetDownThenUp ==
    \A t \in Threads :
       thr[t].op = "reset" =>
          /\ thr[t].downs = 1
          /\ thr[t].ups <= 1
          /\ (thr[t].ups = 1) <=> (thr[t].downRet = "ok")
          /\ thr[t].half = "down" => thr[t].ups = 0
          /\ thr[t].pc = "idle" => thr[t].downRet # "none"
          /\ (thr[t].pc = "idle" /\ thr[t].downRet = "raised")
                => thr[t].result \in {"timeout", "error"}

\* C9 witness: a reset() whose down() powered the adapter off and whose up()
\* powered it on again has returned.
ResetCompleted ==
    \E t \in Threads :
       /\ thr[t].op = "reset" /\ thr[t].pc = "idle" /\ thr[t].result = "ok"
       /\ thr[t].downs = 1 /\ thr[t].ups = 1 /\ thr[t].setReqs = 1

\* C10: a connect() that finds the device connected sends no request and
\* returns a Connection; otherwise it sends exactly one request, and a failed
\* request is raised with no second request and no Connection.
ConnectRequestsOnce ==
    \A t \in Threads :
       thr[t].op = "connect" =>
          /\ cn[t].connReqs <= 1
          /\ cn[t].seen = "connected" =>
                (cn[t].connReqs = 0 /\ cn[t].connection
                 /\ thr[t].pc = "idle" /\ thr[t].result = "ok")
          /\ (cn[t].seen = "not" /\ thr[t].pc = "idle") => cn[t].connReqs = 1
          /\ cn[t].callFailed =>
                (thr[t].pc = "idle" /\ thr[t].result = "error" /\ ~cn[t].connection)
          /\ thr[t].result = "error" => ~cn[t].connection
          /\ cn[t].connection => thr[t].result = "ok"

\* C10 witness: one connect() returned a Connection for a connected device
\* without a request, another one's single request failed and was raised.
ConnectBothWays ==
    \E t, u \in Threads :
       /\ cn[t].seen = "connected" /\ cn[t].connection /\ cn[t].connReqs = 0
       /\ cn[u].callFailed /\ cn[u].connReqs = 1 /\ thr[u].result = "error"

\* A thread between seeding its accumulation map and having its result.
InSession(t) ==
    /\ thr[t].op = "lescan"
    /\ thr[t].pc \in {"ls_connect", "sd_lock", "sd_check", "sd_start", "ls_wait",
                      "ls_filter"}

\* C11: no two threads are at the same time inside lescan between seeding the
\* accumulation map and computing the result.
OneSessionAtATime ==
    \A t, u \in Threads : (t # u) => ~(InSession(t) /\ InSession(u))

\* C12: a failed lookup of one device during the filtering never makes lescan
\* raise: the call still returns a map.
LescanSurvivesDeviceFailure ==
    \A t \in Threads : ls[t].lookupFailed => thr[t].result = "ok"

BroadcastBeforePowerOff ==
    \A t \in Threads :
       (thr[t].half = "down") =>
          /\ thr[t].pc \in {"down_lock", "down_bcast"} =>
                thr[t].bcast = 0 /\ thr[t].setReqs = 0
          /\ thr[t].pc = "down_bcast" => m_statusMutex = t
          /\ thr[t].pc \in {"down_adapter", "down_check", "wait_poll", "wait_sleep"} =>
                thr[t].bcast = 1
          /\ thr[t].setReqs >= 1 => thr[t].bcast = 1

\* C14 witness: a down() that has sent its power-off request and returned.
DownPoweredOffAfterBroadcast ==
    \E t \in Threads :
       /\ thr[t].half = "down" /\ thr[t].pc = "idle" /\ thr[t].result = "ok"
       /\ thr[t].setReqs = 1 /\ thr[t].bcast = 1

\* A thread between the read of the discovering flag and the end of
\* startDiscovery.
InStartDiscovery(t) == thr[t].pc \in {"sd_check", "sd_start"}

\* C15: at most one thread is between the check and the act of startDiscovery,
\* a start-discovery request is only issued when the adapter is not
\* discovering, and the destructor's stop-discovery request is only issued
\* when it is.
StartStopAtomic ==
    [][ /\ \A t, u \in Threads :
              (InStartDiscovery(t) /\ InStartDiscovery(u)) => t = u
        /\ \A t \in Threads :
              (thr'[t].startReqs > thr[t].startReqs) =>
                 /\ ~discovering
                 /\ \A u \in Threads \ {t} : thr'[u].startReqs = thr[u].startReqs
        /\ (life = "dtor_sd_stop" /\ life' # life) => discovering ]_vars

\* C15 witness: of two calls inside startDiscovery at the same time one has
\* issued the request and the other has found the adapter discovering.
ConcurrentStartersOneRequest ==
    \E t, u \in Threads :
       /\ t # u /\ thr[t].pc # "idle" /\ thr[u].pc # "idle"
       /\ thr[t].disc = "requested" /\ thr[t].startReqs = 1
       /\ thr[u].disc = "already" /\ thr[u].startReqs = 0
       /\ thr[t].op # thr[u].op

\* A thread inside lescan from the end of its wait to its return.
PastWait(t) ==
    thr[t].op = "lescan" /\ thr[t].pc \in {"ls_filter", "ls_release"}

\* C16: from the end of its wait to its return, on either wake path, no step
\* of lescan stops a running discovery.
LescanLeavesDiscoveryRunning ==
    [][ \A t \in Threads :
           ((Waiting(t) \/ PastWait(t)) /\ thr'[t] # thr[t] /\ discovering)
              => discovering' ]_vars

\* C16 witness: a lescan woken by a broadcast has returned its map with the
\* discovery still running.
LescanReturnedStillDiscovering ==
    \E t \in Threads :
       /\ thr[t].op = "lescan" /\ thr[t].pc = "ls_release" /\ thr[t].result = "ok"
       /\ ls[t].wokenBy = "broadcast" /\ discovering

\* C17: when a down() that sent the power-off request and saw the adapter
\* powered off has returned, and no other call is in progress, the discovery
\* is not running any more.
DownStopsDiscovery ==
    \A t \in Threads :
       ( /\ thr[t].half = "down" /\ thr[t].pc = "idle" /\ thr[t].result = "ok"
         /\ thr[t].setReqs = 1 /\ thr[t].sawTarget
         /\ \A u \in Threads \ {t} : thr[u].pc = "idle" )
       => ~discovering

\* C18: an up() that is at or past its read of the power state has gone
\* through startDiscovery: it found the adapter discovering, or it issued
\* exactly one start-discovery request; a power-on request has this behind it.
UpStartsDiscoveryFirst ==
    \A t \in Threads :
       (thr[t].half = "up") =>
          /\ ( \/ thr[t].pc \in {"up_check", "wait_poll", "wait_sleep"}
               \/ thr[t].seen # "unread"
               \/ thr[t].setReqs >= 1 )
             => /\ thr[t].disc \in {"already", "requested"}
                /\ thr[t].disc = "requested" <=> thr[t].startReqs = 1
                /\ thr[t].disc = "already" <=> thr[t].startReqs = 0
          /\ thr[t].pc \in {"up_lock", "up_adapter", "sd_lock"} =>
                /\ thr[t].seen = "unread" /\ thr[t].startReqs = 0
          /\ thr[t].pc \in {"sd_check", "sd_start"} => thr[t].seen = "unread"

\* C18 witness: an up() that found the adapter powered off has issued its
\* start-discovery request and then its power-on request.
UpStartedThenPoweredOn ==
    \E t \in Threads :
       /\ thr[t].half = "up" /\ thr[t].seen = "off" /\ thr[t].setReqs = 1
       /\ thr[t].disc = "requested" /\ thr[t].startReqs = 1

\* The names an entry of the accumulation map can hold.
RecordedNames == {DeviceName(n) : n \in ReportedNames}

\* C19: while a session's accumulation map lives, an entry is never removed
\* and never changes its name, a new entry holds the reported name, and an
\* address that reports no name is held as "unknown".
MapOnlyGrows ==
    [][ \A t \in Threads : \A a \in Addrs :
           /\ ls'[t].mapAlive =>
                 /\ ls'[t].allDevices[a] \in RecordedNames \cup {Absent}
                 /\ ls'[t].allDevices[a] # NoName
           /\ (ls[t].mapAlive /\ ls'[t].mapAlive /\ ls[t].allDevices[a] # Absent) =>
                 ls'[t].allDevices[a] = ls[t].allDevices[a] ]_vars

\* C19 witness: a notification with another name came for an address already
\* in the map of a waiting session, which holds "unknown" for an address.
LaterNameIgnored ==
    \E t \in Threads : \E a \in Addrs :
       /\ ls[t].mapAlive /\ Waiting(t) /\ ls[t].kept
       /\ ls[t].allDevices[a] = "unknown"

\* Thread t waits for a mutex another thread holds.
Blocked(t) ==
    \/ thr[t].pc \in {"up_lock", "down_lock", "wait_sleep"} /\ m_statusMutex # NoThread
    \/ thr[t].pc = "sd_lock" /\ m_discoveringMutex # NoThread

\* Where a thread inside up() or down() holds m_statusMutex.
HoldsStatus(t) ==
    /\ thr[t].op # "lescan"
    /\ thr[t].pc \in {"up_adapter", "sd_lock", "sd_check", "sd_start", "up_check",
                      "down_bcast", "down_adapter", "down_check", "wait_poll"}

\* C20: m_discoveringMutex is taken with m_statusMutex or no lock held and
\* m_statusMutex is never waited for with m_discoveringMutex held; a thread
\* holds a lock exactly inside the sections that take it, so none once its
\* call has returned or raised; the holder of a lock is never blocked unless
\* on the other lock's running holder, and never are all threads blocked.
LocksNeverDeadlock ==
    /\ \A t \in Threads :
          /\ m_statusMutex = t <=> HoldsStatus(t)
          /\ m_discoveringMutex = t <=> InStartDiscovery(t)
          /\ thr[t].pc \in {"up_lock", "down_lock", "wait_sleep"} =>
                m_discoveringMutex # t
          /\ thr[t].pc = "sd_lock" =>
                (m_statusMutex = t <=> thr[t].op # "lescan")
          /\ thr[t].pc = "idle" => (m_statusMutex # t /\ m_discoveringMutex # t)
          /\ m_discoveringMutex = t => ~Blocked(t)
          /\ (m_statusMutex = t /\ Blocked(t)) =>
                (m_discoveringMutex \in Threads /\ ~Blocked(m_discoveringMutex))
    /\ \E t \in Threads : ~Blocked(t)

\* C20 witness: after an up() or down() of one thread has raised Timeout,
\* another thread has just taken the status lock.
LockTakenAfterTimeout ==
    \E t, u \in Threads :
       /\ thr[t].pc = "idle" /\ thr[t].result = "timeout"
       /\ m_statusMutex = u /\ thr[u].pc \in {"up_adapter", "down_bcast"}

=============================================================================
